---- MODULE Spec2Model ----
(***************************************************************************)
(* next_word_gui.py: MarkovChainTextPredictor (train, predict_next,        *)
(* get_stats) and the PredictionApp callbacks that drive it.               *)
(*                                                                         *)
(* A Python str is a sequence of one-character strings; a code point that  *)
(* TLA+ cannot spell is written "U+xxxx" and still counts as one character.*)
(* A Python float is an exact fraction [num, den] in lowest terms.         *)
(***************************************************************************)
EXTENDS Integers, Sequences, FiniteSets, TLC

VARIABLES
    model,               \* self.model: context key -> list of followers
    trained,             \* self.trained
    training_time,       \* self.training_time, in milliseconds
    vocab_size,          \* self.vocab_size
    unique_transitions,  \* self.unique_transitions
    total_transitions,   \* self.total_transitions
    f1_score,            \* self.f1_score
    file_size,           \* self.file_size
    file_name,           \* self.file_name
    returned,            \* the last call made on the predictor and its value
    trained_with,        \* history: corpus and n of the latest train call
    stack,               \* PredictionApp: upload_file activations, innermost last
    file_label,          \* PredictionApp.file_label text
    progress_shown,      \* PredictionApp.progress is packed
    args,                \* SessionSpec: the inputs of the caller
    train_calls          \* Spec, history: the train calls made so far

predictor == <<model, trained, training_time, vocab_size, unique_transitions,
               total_transitions, f1_score, file_size, file_name>>
app == <<stack, file_label, progress_shown>>
vars == <<predictor, returned, trained_with, app, args, train_calls>>

---------------------------------------------------------------------------
(* Bounds of the model.                                                    *)

MaxTokens == 4
MaxOrder == 3
MaxTopK == 2
MaxPrefixTokens == 2
MaxShortTokens == 2
MaxTrainCalls == 2
MaxNesting == 2

---------------------------------------------------------------------------
(* Text.                                                                   *)

\* the characters str.split() and str.strip() take for whitespace, as far as the
\* inputs below use them
Whitespace == {" ", "\t", "\n"}

IsSpace(c) == c \in Whitespace

RECURSIVE SplitFrom(_, _, _, _)
SplitFrom(s, i, cur, acc) ==
    IF i > Len(s)
    THEN IF cur = <<>> THEN acc ELSE Append(acc, cur)
    ELSE IF IsSpace(s[i])
         THEN SplitFrom(s, i + 1, <<>>, IF cur = <<>> THEN acc ELSE Append(acc, cur))
         ELSE SplitFrom(s, i + 1, Append(cur, s[i]), acc)

\* str.split(): the maximal runs of non-whitespace, in order
split(s) == SplitFrom(s, 1, <<>>, <<>>)

RECURSIVE lstrip(_)
lstrip(s) == IF s # <<>> /\ IsSpace(Head(s)) THEN lstrip(Tail(s)) ELSE s

RECURSIVE rstrip(_)
rstrip(s) ==
    IF s # <<>> /\ IsSpace(s[Len(s)]) THEN rstrip(SubSeq(s, 1, Len(s) - 1)) ELSE s

\* str.strip()
strip(s) == rstrip(lstrip(s))

Lowercase == <<"a", "b", "c", "d", "e", "f", "g", "h", "i", "j", "k", "l", "m",
               "n", "o", "p", "q", "r", "s", "t", "u", "v", "w", "x", "y", "z">>

\* ord(c) for the characters that occur in tokens
CodePoint(c) ==
    IF \E i \in DOMAIN Lowercase : Lowercase[i] = c
    THEN 96 + (CHOOSE i \in DOMAIN Lowercase : Lowercase[i] = c)
    ELSE CASE c = "\t" -> 9 [] c = "\n" -> 10 [] c = " " -> 32

RECURSIVE StrLessFrom(_, _, _)
StrLessFrom(a, b, i) ==
    IF i > Len(b) THEN FALSE
    ELSE IF i > Len(a) THEN TRUE
    ELSE IF CodePoint(a[i]) # CodePoint(b[i]) THEN CodePoint(a[i]) < CodePoint(b[i])
    ELSE StrLessFrom(a, b, i + 1)

\* a < b on str: code point by code point, a proper prefix first
StrLess(a, b) == StrLessFrom(a, b, 1)

---------------------------------------------------------------------------
(* Floats as exact fractions.                                              *)

RECURSIVE GCD(_, _)
GCD(a, b) == IF b = 0 THEN a ELSE GCD(b, a % b)

Frac(n, d) == LET g == GCD(n, d) IN [num |-> n \div g, den |-> d \div g]

FracMul(x, y) == Frac(x.num * y.num, x.den * y.den)

FracAdd(x, y) == Frac(x.num * y.den + y.num * x.den, x.den * y.den)

FracDiv(x, y) == Frac(x.num * y.den, x.den * y.num)

---------------------------------------------------------------------------
(* MarkovChainTextPredictor.train                                          *)

\* defaultdict(list)() / defaultdict(int)(): a mapping with no key
EmptyDict == [k \in {} |-> 0]

\* train without line 22: the index of the call before is kept
ModelKept(m) == m

\* self.model.clear()
ModelClear(m) == EmptyDict

\* self.model[key].append(next_word): a missing key starts from []
ModelAppend(m, key, next_word) ==
    IF key \in DOMAIN m
    THEN [m EXCEPT ![key] = Append(@, next_word)]
    ELSE m @@ (key :> <<next_word>>)

\* transition_counts[(key, next_word)] += 1: a missing pair starts from 0
CountIncr(tc, pair) ==
    IF pair \in DOMAIN tc
    THEN [tc EXCEPT ![pair] = @ + 1]
    ELSE tc @@ (pair :> 1)

\* range(len(tokens) - n): the last window is not scanned
WindowCountShort(tokens, n) == Len(tokens) - n

\* range(len(tokens) - n + 1): the number of values of i (none when negative)
WindowCount(tokens, n) == Len(tokens) - n + 1

\* tuple(tokens[i:i + n - 1]), i counted from 0
ContextKey(tokens, i, n) == SubSeq(tokens, i + 1, i + n - 1)

\* tokens[i + n - 1], i counted from 0
NextWord(tokens, i, n) == tokens[i + n]

RECURSIVE TrainLoop(_, _, _, _)
TrainLoop(tokens, n, i, acc) ==
    IF i >= WindowCount(tokens, n)
    THEN acc
    ELSE LET key == ContextKey(tokens, i, n)
             next_word == NextWord(tokens, i, n)
         IN  TrainLoop(tokens, n, i + 1,
                 [model |-> ModelAppend(acc.model, key, next_word),
                  transition_counts |->
                      CountIncr(acc.transition_counts, <<key, next_word>>)])

\* len(tokens): every occurrence counted
VocabSizeOfList(tokens) == Len(tokens)

\* len(set(tokens))
VocabSize(tokens) == Cardinality({tokens[i] : i \in DOMAIN tokens})

RECURSIVE SumOver(_, _)
SumOver(f, S) ==
    IF S = {} THEN 0
    ELSE LET k == CHOOSE k \in S : TRUE IN f[k] + SumOver(f, S \ {k})

\* sum(transition_counts.values())
SumValues(tc) == SumOver(tc, DOMAIN tc)

\* the F1 score approximation of lines 38-41
F1Score(tc) ==
    LET unique == Cardinality(DOMAIN tc)
        total == SumValues(tc)
        correct == Cardinality({p \in DOMAIN tc : tc[p] > 1})
        precision == IF unique # 0 THEN Frac(correct, unique) ELSE Frac(0, 1)
        recall == IF total # 0 THEN Frac(correct, total) ELSE Frac(0, 1)
        both == FracAdd(precision, recall)
    IN  IF both.num # 0
        THEN FracDiv(FracMul(Frac(2, 1), FracMul(precision, recall)), both)
        ELSE Frac(0, 1)

\* self.trained = True
TrainedAfterTrain == TRUE

\* time.time() - start_time: what the wall clock may read, in milliseconds
Durations == {0, 125}

\* train(corpus, n), taking elapsed milliseconds of wall clock
train(corpus, n, elapsed) ==
    LET tokens == split(corpus)
        built == TrainLoop(tokens, n, 0,
                     [model |-> ModelClear(model), transition_counts |-> EmptyDict])
    IN  /\ model' = built.model
        /\ vocab_size' = VocabSize(tokens)
        /\ unique_transitions' = Cardinality(DOMAIN built.transition_counts)
        /\ total_transitions' = SumValues(built.transition_counts)
        /\ f1_score' = F1Score(built.transition_counts)
        /\ training_time' = elapsed
        /\ trained' = TrainedAfterTrain
        /\ trained_with' = [corpus |-> corpus, n |-> n]
        /\ UNCHANGED <<file_size, file_name>>

---------------------------------------------------------------------------
(* MarkovChainTextPredictor.predict_next                                   *)

\* "⚠️ Please load training data first"
NotTrainedMessage ==
    <<"U+26A0", "U+FE0F", " ", "P", "l", "e", "a", "s", "e", " ", "l", "o", "a", "d",
      " ", "t", "r", "a", "i", "n", "i", "n", "g", " ", "d", "a", "t", "a", " ",
      "f", "i", "r", "s", "t">>

\* "🤖 No predictions available"
NoPredictionsMessage ==
    <<"U+1F916", " ", "N", "o", " ", "p", "r", "e", "d", "i", "c", "t", "i", "o", "n",
      "s", " ", "a", "v", "a", "i", "l", "a", "b", "l", "e">>

\* tuple(words[-1:]): the last word alone, whatever n the model was trained with
LookupKey(words) == SubSeq(words, Len(words), Len(words))

\* self.model[key]: a defaultdict stores [] under a key it does not hold
ModelIndex(m, key) ==
    IF key \in DOMAIN m
    THEN [value |-> m[key], model |-> m]
    ELSE [value |-> <<>>, model |-> m @@ (key :> <<>>)]

\* self.model.get(key, []): the value read, and the mapping as the read leaves it
ModelGet(m, key) ==
    [value |-> IF key \in DOMAIN m THEN m[key] ELSE <<>>, model |-> m]

\* freq[word] += 1 on a dict that keeps insertion order: <<word, count>> items
FreqIncr(freq, word) ==
    IF \E j \in DOMAIN freq : freq[j][1] = word
    THEN [j \in DOMAIN freq |->
             IF freq[j][1] = word THEN <<word, freq[j][2] + 1>> ELSE freq[j]]
    ELSE Append(freq, <<word, 1>>)

RECURSIVE FreqLoop(_, _, _)
FreqLoop(candidates, j, freq) ==
    IF j > Len(candidates) THEN freq
    ELSE FreqLoop(candidates, j + 1, FreqIncr(freq, candidates[j]))

\* key=lambda x: -x[1]: equal counts stay in order of first occurrence
SortKeyLessByCount(x, y) == 0 - x[2] < 0 - y[2]

\* key=lambda x: (-x[1], x[0]), compared as tuples: x sorts strictly before y
SortKeyLess(x, y) ==
    \/ 0 - x[2] < 0 - y[2]
    \/ 0 - x[2] = 0 - y[2] /\ StrLess(x[1], y[1])

\* one step of a stable sort: x goes after every item that does not sort after it
RECURSIVE InsertSorted(_, _)
InsertSorted(sorted, x) ==
    IF sorted = <<>> THEN <<x>>
    ELSE IF SortKeyLess(x, Head(sorted))
         THEN <<x>> \o sorted
         ELSE <<Head(sorted)>> \o InsertSorted(Tail(sorted), x)

RECURSIVE SortFrom(_, _, _)
SortFrom(items, j, sorted) ==
    IF j > Len(items) THEN sorted
    ELSE SortFrom(items, j + 1, InsertSorted(sorted, items[j]))

\* sorted(freq.items(), key=...)
Sorted(items) == SortFrom(items, 1, <<>>)

\* sorted_words[:top_k], top_k >= 0
SliceTo(s, top_k) == SubSeq(s, 1, IF top_k < Len(s) THEN top_k ELSE Len(s))

\* line 49 returning the message of line 59
NotTrainedAsNoPredictions == <<NoPredictionsMessage>>

\* line 49: return ["⚠️ Please load training data first"]
NotTrainedReturn == <<NotTrainedMessage>>

\* line 53: return []
EmptyInputReturn == <<>>

\* line 59 returning [] as line 53 does
NoCandidatesAsEmpty == <<>>

\* line 59: return ["🤖 No predictions available"]
NoCandidatesReturn == <<NoPredictionsMessage>>

\* predict_next(text, top_k): the value returned, and self.model after the call
predict_next(text, top_k) ==
    IF ~trained
    THEN [value |-> NotTrainedReturn, model |-> model]
    ELSE LET words == split(strip(text)) IN
         IF words = <<>>
         THEN [value |-> EmptyInputReturn, model |-> model]
         ELSE LET got == ModelGet(model, LookupKey(words))
                  candidates == got.value
              IN  IF candidates = <<>>
                  THEN [value |-> NoCandidatesReturn, model |-> got.model]
                  ELSE LET sorted_words == Sorted(FreqLoop(candidates, 1, <<>>))
                           top == SliceTo(sorted_words, top_k)
                       IN  [value |-> [j \in DOMAIN top |-> top[j][1]],
                            model |-> got.model]

---------------------------------------------------------------------------
(* MarkovChainTextPredictor.get_stats                                      *)

RECURSIVE Pow10(_)
Pow10(k) == IF k = 0 THEN 1 ELSE 10 * Pow10(k - 1)

DigitChars == <<"0", "1", "2", "3", "4", "5", "6", "7", "8", "9">>

\* str(k) for an int k >= 0
RECURSIVE Decimal(_)
Decimal(k) ==
    IF k < 10 THEN <<DigitChars[k + 1]>>
    ELSE Decimal(k \div 10) \o <<DigitChars[(k % 10) + 1]>>

\* the last `digits` decimal digits of k, zeros in front
RECURSIVE ZeroPadded(_, _)
ZeroPadded(k, digits) ==
    IF digits = 0 THEN <<>>
    ELSE ZeroPadded(k \div 10, digits - 1) \o <<DigitChars[(k % 10) + 1]>>

\* f"{num/den:.{digits}f}", digits >= 1: the decimal nearest to num/den, an exact
\* tie going to the even last digit (the float of a tie is exact)
FormatFixed(num, den, digits) ==
    LET scaled == num * Pow10(digits)
        q == scaled \div den
        r == scaled % den
        rounded == IF 2 * r > den \/ (2 * r = den /\ q % 2 = 1) THEN q + 1 ELSE q
    IN  Decimal(rounded \div Pow10(digits)) \o <<".">>
            \o ZeroPadded(rounded % Pow10(digits), digits)

\* get_stats(): builds the record whatever self.trained is
get_stats ==
    [file_name |-> file_name,
     file_size |-> FormatFixed(file_size, 1024, 1) \o <<" ", "K", "B">>,
     training_time |->
         FormatFixed(training_time, 1000, 2)
             \o <<" ", "s", "e", "c", "o", "n", "d", "s">>,
     vocab_size |-> vocab_size,
     unique_transitions |-> unique_transitions,
     total_transitions |-> total_transitions,
     f1_score |-> FormatFixed(f1_score.num, f1_score.den, 3),
     compression_ratio |->
         IF unique_transitions # 0
         THEN FormatFixed(vocab_size, unique_transitions, 1) \o <<"x">>
         ELSE <<"N", "/", "A">>]

---------------------------------------------------------------------------
(* Inputs.                                                                 *)

Words == {<<"a", "b">>, <<"b">>}

TokenSeqs(k) == UNION {[1..m -> Words] : m \in 0..k}

RECURSIVE Join(_, _)
Join(ts, sep) ==
    IF ts = <<>> THEN <<>>
    ELSE IF Len(ts) = 1 THEN ts[1]
    ELSE ts[1] \o sep \o Join(Tail(ts), sep)

\* the tokens a single space apart
Plain(ts) == Join(ts, <<" ">>)

\* the same tokens after a newline, a space and a tab apart, a space at the end
Padded(ts) == <<"\n">> \o Join(ts, <<" ", "\t">>) \o <<" ">>

\* "the cat sat on the mat the cat ran"
ScenarioCorpus ==
    Plain(<< <<"t", "h", "e">>, <<"c", "a", "t">>, <<"s", "a", "t">>, <<"o", "n">>,
             <<"t", "h", "e">>, <<"m", "a", "t">>, <<"t", "h", "e">>,
             <<"c", "a", "t">>, <<"r", "a", "n">> >>)

ShortCorpora ==
    {Plain(ts) : ts \in TokenSeqs(MaxShortTokens)}
        \cup {Padded(ts) : ts \in TokenSeqs(MaxShortTokens)}
        \cup {ScenarioCorpus}

Corpora == ShortCorpora \cup {Plain(ts) : ts \in TokenSeqs(MaxTokens)}

Orders == 2..MaxOrder

Prefixes ==
    {Plain(ts) : ts \in TokenSeqs(MaxPrefixTokens)}
        \cup {Padded(ts) : ts \in TokenSeqs(1)}
        \cup {<<"t", "h", "e">>}

TopKs == 1..MaxTopK

---------------------------------------------------------------------------
(* PredictionApp: files, widgets and the activations of upload_file.       *)

\* "No file selected"
NoFileSelected ==
    <<"N", "o", " ", "f", "i", "l", "e", " ", "s", "e", "l", "e", "c", "t", "e", "d">>

\* "Upload failed"
UploadFailed == <<"U", "p", "l", "o", "a", "d", " ", "f", "a", "i", "l", "e", "d">>

\* train(self, corpus, n=2)
DefaultOrder == 2

\* predict_next(self, text, top_k=3)
DefaultTopK == 3

\* What the file dialog can return. A file is its path, its size in bytes and what
\* file.read(chunk_size) returns call after call: chunks[k] at the k-th call, ""
\* after the last, and UnicodeDecodeError at call number bad (0: never). A file
\* with opens = FALSE makes open() raise.
Files ==
    {[path |-> <<"/", "d", "/", "a">>, opens |-> TRUE, size |-> 6, bad |-> 0,
      chunks |-> << <<"b", " ", "b", " ">>, <<"a", "b">> >>],
     [path |-> <<"/", "d", "/", "b">>, opens |-> TRUE, size |-> 4, bad |-> 0,
      chunks |-> << <<"a", "b", " ", "b">> >>],
     [path |-> <<"/", "d", "/", "c">>, opens |-> TRUE, size |-> 5, bad |-> 2,
      chunks |-> << <<"b", " ", "a", "b">> >>],
     [path |-> <<"/", "e">>, opens |-> FALSE, size |-> 0, bad |-> 0,
      chunks |-> <<>>]}

\* what the user has typed into user_input when a prediction is asked for
EntryTexts == {<<" ">>, <<"b">>, <<" ", "b", " ", "a", "b">>}

\* os.path.basename(path): what follows the last "/"
RECURSIVE basename(_)
basename(path) ==
    IF \E i \in DOMAIN path : path[i] = "/"
    THEN basename(Tail(path))
    ELSE path

---------------------------------------------------------------------------
(* Calls on the predictor.                                                 *)

NoCorpus == [corpus |-> <<>>, n |-> 0]

NoArgs == [corpus |-> <<>>, n |-> 0, text |-> <<>>, top_k |-> 0]

\* MarkovChainTextPredictor() and PredictionApp(root)
Constructed ==
    /\ model = EmptyDict
    /\ trained = FALSE
    /\ training_time = 0
    /\ vocab_size = 0
    /\ unique_transitions = 0
    /\ total_transitions = 0
    /\ f1_score = Frac(0, 1)
    /\ file_size = 0
    /\ file_name = <<>>
    /\ returned = [op |-> "none"]
    /\ trained_with = NoCorpus
    /\ stack = <<>>
    /\ file_label = NoFileSelected
    /\ progress_shown = FALSE
    /\ train_calls = 0

TrainCall(corpus, n) ==
    /\ \E elapsed \in Durations : train(corpus, n, elapsed)
    /\ returned' = [op |-> "train"]
    /\ UNCHANGED <<app, args>>

PredictNextCall(text, top_k) ==
    LET call == predict_next(text, top_k) IN
    /\ model' = call.model
    /\ returned' = [op |-> "predict_next", value |-> call.value]
    /\ UNCHANGED <<trained, training_time, vocab_size, unique_transitions,
                   total_transitions, f1_score, file_size, file_name,
                   trained_with, app, args, train_calls>>

GetStatsCall ==
    /\ returned' = [op |-> "get_stats", value |-> get_stats]
    /\ UNCHANGED <<predictor, trained_with, app, args, train_calls>>

---------------------------------------------------------------------------
(* Spec: one predictor, any calls in any order, each with any input.       *)

Init == Constructed /\ args = NoArgs

Train ==
    /\ train_calls < MaxTrainCalls
    /\ \E corpus \in ShortCorpora, n \in Orders : TrainCall(corpus, n)
    /\ train_calls' = train_calls + 1

PredictNext == \E text \in Prefixes, top_k \in TopKs : PredictNextCall(text, top_k)

GetStats == GetStatsCall

Next == Train \/ PredictNext \/ GetStats

Spec == Init /\ [][Next]_vars

---------------------------------------------------------------------------
(* SessionSpec: one predictor and one caller whose inputs are fixed at the *)
(* start: it trains with args.corpus and args.n and predicts for args.text *)
(* and args.top_k, in any order and any number of times.                   *)

SessionInit ==
    /\ Constructed
    /\ args \in [corpus : Corpora, n : Orders, text : Prefixes, top_k : TopKs]

SessionTrain == TrainCall(args.corpus, args.n) /\ UNCHANGED train_calls

SessionPredictNext == PredictNextCall(args.text, args.top_k)

SessionGetStats == GetStatsCall

SessionNext == SessionTrain \/ SessionPredictNext \/ SessionGetStats

SessionSpec == SessionInit /\ [][SessionNext]_vars

---------------------------------------------------------------------------
(* AppSpec: the callbacks of PredictionApp. root.update() inside upload_file*)
(* runs the callbacks of the events that are pending, another upload_file  *)
(* among them; the activation that called it goes on when they are done.   *)
(* The chat display is written and never read, and is left out.            *)

Top == stack[Len(stack)]

Pop == SubSeq(stack, 1, Len(stack) - 1)

Goto(pc) == [stack EXCEPT ![Len(stack)].pc = pc]

\* the except clause of upload_file, lines 277-281
UploadFails ==
    /\ progress_shown' = FALSE
    /\ file_label' = UploadFailed
    /\ stack' = Pop

\* lines 246-252 and, once read() returns "", line 254 up to the update of 255
ReadChunk ==
    LET k == Top.reads + 1 IN
    IF Top.file.bad = k
    THEN UploadFails
    ELSE /\ IF k > Len(Top.file.chunks)
            THEN stack' = Goto("update255")
            ELSE stack' = [stack EXCEPT ![Len(stack)] =
                              [@ EXCEPT !.pc = "update252", !.reads = k,
                                        !.content = @ \o Top.file.chunks[k]]]
         /\ UNCHANGED <<file_label, progress_shown>>

\* upload_file from the click to the update of line 226
UploadFile ==
    /\ Len(stack) < MaxNesting
    /\ \E file \in Files :
           /\ file_label' = basename(file.path)
           /\ stack' = Append(stack, [pc |-> "update226", file |-> file,
                                      reads |-> 0, content |-> <<>>])
    /\ UNCHANGED <<predictor, returned, trained_with, progress_shown, args,
                   train_calls>>

\* the file dialog is closed without a choice: file_path is ""
UploadCancelled == UNCHANGED vars

\* lines 229-231
ShowProgress ==
    /\ stack # <<>> /\ Top.pc = "update226"
    /\ progress_shown' = TRUE
    /\ stack' = Goto("update231")
    /\ UNCHANGED <<predictor, returned, trained_with, file_label, args, train_calls>>

\* lines 234-252: open, the metadata, the first read
OpenAndRead ==
    /\ stack # <<>> /\ Top.pc = "update231"
    /\ IF ~Top.file.opens
       THEN UploadFails /\ UNCHANGED <<file_size, file_name>>
       ELSE /\ file_size' = Top.file.size
            /\ file_name' = basename(Top.file.path)
            /\ ReadChunk
    /\ UNCHANGED <<model, trained, training_time, vocab_size, unique_transitions,
                   total_transitions, f1_score, returned, trained_with, args,
                   train_calls>>

\* lines 246-252, a later turn of the loop
ReadOn ==
    /\ stack # <<>> /\ Top.pc = "update252"
    /\ ReadChunk
    /\ UNCHANGED <<predictor, returned, trained_with, args, train_calls>>

\* lines 258-275
TrainAndReport ==
    /\ stack # <<>> /\ Top.pc = "update255"
    /\ \E elapsed \in Durations : train(Top.content, DefaultOrder, elapsed)
    /\ progress_shown' = FALSE
    /\ returned' = [op |-> "get_stats", value |-> get_stats']
    /\ stack' = Pop
    /\ UNCHANGED <<file_label, args, train_calls>>

\* process_input with some text in the entry
ProcessInput ==
    \E entry \in EntryTexts :
        LET text == strip(entry) IN
        IF text = <<>>
        THEN UNCHANGED vars
        ELSE PredictNextCall(text, DefaultTopK)

\* show_statistics: the warning, or the statistics window
ShowStatistics ==
    IF ~trained THEN UNCHANGED vars ELSE GetStatsCall

AppNext ==
    \/ UploadFile
    \/ UploadCancelled
    \/ ShowProgress
    \/ OpenAndRead
    \/ ReadOn
    \/ TrainAndReport
    \/ ProcessInput
    \/ ShowStatistics

AppSpec == Init /\ [][AppNext]_vars

---------------------------------------------------------------------------
(* What the claims speak of, stated without the code's loops.              *)

\* the number of whitespace-separated tokens of s: the places where one starts
TokenCount(s) ==
    Cardinality({i \in DOMAIN s : ~IsSpace(s[i]) /\ (i = 1 \/ IsSpace(s[i - 1]))})

NoTokens(s) == \A i \in DOMAIN s : IsSpace(s[i])

\* a sorts before b in lexicographic order of code points
LexBefore(a, b) ==
    \E i \in 1..(Len(b)) :
        /\ \A j \in 1..(i - 1) : j <= Len(a) /\ a[j] = b[j]
        /\ \/ i = Len(a) + 1
           \/ i <= Len(a) /\ CodePoint(a[i]) < CodePoint(b[i])

\* how often each distinct word occurs in the sequence followers
Occurrences(followers) ==
    [w \in {followers[i] : i \in DOMAIN followers} |->
        Cardinality({i \in DOMAIN followers : followers[i] = w})]

\* v ranks before w: more occurrences, or as many and lexicographically smaller
RanksBefore(cnt, v, w) ==
    \/ cnt[v] > cnt[w]
    \/ cnt[v] = cnt[w] /\ LexBefore(v, w)

\* r is the first min(k, number of distinct words) words of the ranking of cnt
IsRanking(r, cnt, k) ==
    LET distinct == DOMAIN cnt
        size == Cardinality(distinct)
    IN  /\ Len(r) = (IF k < size THEN k ELSE size)
        /\ \A i \in DOMAIN r : r[i] \in distinct
        /\ \A i, j \in DOMAIN r : i < j => r[i] # r[j] /\ RanksBefore(cnt, r[i], r[j])
        /\ \A w \in distinct :
               (\A i \in DOMAIN r : r[i] # w) =>
                   \A i \in DOMAIN r : RanksBefore(cnt, r[i], w)

\* the tokens that follow an occurrence of the context ctx in tokens, in order
FollowersOf(tokens, ctx) ==
    LET at == {i \in 1..(Len(tokens) - Len(ctx)) :
                  SubSeq(tokens, i, i + Len(ctx) - 1) = ctx}
        F[i \in 0..Len(tokens)] ==
            IF i = 0 THEN <<>>
            ELSE IF i \in at THEN Append(F[i - 1], tokens[i + Len(ctx)]) ELSE F[i - 1]
    IN  F[Len(tokens)]

\* the number of follower entries the index holds
IndexEntries(m) ==
    LET lengths == [key \in DOMAIN m |-> Len(m[key])] IN SumOver(lengths, DOMAIN m)

TrainCalled == trained_with.n # 0

PredictReturned == returned.op = "predict_next"

PrefixWords == split(strip(args.text))

---------------------------------------------------------------------------
(* The claims.                                                             *)

\* C1: on a trained model, when the context predict_next looks up has a follower,
\* the value returned is the distinct followers of that context by descending
\* count, ties by ascending lexicographic order, cut to min(top_k, distinct
\* followers) entries, no word twice.
RankedFollowersReturned ==
    (/\ PredictReturned
     /\ trained
     /\ PrefixWords # <<>>
     /\ LookupKey(PrefixWords) \in DOMAIN model
     /\ model[LookupKey(PrefixWords)] # <<>>)
        => IsRanking(returned.value, Occurrences(model[LookupKey(PrefixWords)]),
                     args.top_k)

\* C1 witness: a returned ranking where the more frequent follower is the
\* lexicographically larger one
RankedByCountReached ==
    /\ PredictReturned
    /\ trained
    /\ PrefixWords # <<>>
    /\ LookupKey(PrefixWords) \in DOMAIN model
    /\ Len(returned.value) = 2
    /\ LexBefore(returned.value[2], returned.value[1])

\* C2 as claimed: on a model trained with order n, when the prefix has at least
\* n-1 tokens and its last n-1 tokens occur in the corpus followed by a token,
\* predict_next returns the ranked followers of that (n-1)-token context.
ContextIsLastOrderMinusOneTokens ==
    LET n == trained_with.n
        ctx == SubSeq(PrefixWords, Len(PrefixWords) - (n - 1) + 1, Len(PrefixWords))
        followers == FollowersOf(split(trained_with.corpus), ctx)
    IN  (/\ PredictReturned
         /\ trained
         /\ Len(PrefixWords) >= n - 1
         /\ followers # <<>>)
            => /\ returned.value # <<NoPredictionsMessage>>
               /\ IsRanking(returned.value, Occurrences(followers), args.top_k)

\* C3: on a model never trained, predict_next returns the not-trained outcome for
\* every prefix and top_k, and that outcome is neither the empty result nor the
\* no-prediction outcome.
UntrainedPredictSaysNotTrained ==
    (PredictReturned /\ ~TrainCalled)
        => /\ returned.value = <<NotTrainedMessage>>
           /\ returned.value # <<>>
           /\ returned.value # <<NoPredictionsMessage>>

\* C3 witness: predict_next has returned for a whitespace-only prefix, untrained
UntrainedBlankPrefixReached ==
    /\ PredictReturned
    /\ ~TrainCalled
    /\ args.text # <<>>
    /\ NoTokens(args.text)

\* C4 as claimed: after train on the empty corpus the model is trained, vocab_size
\* is 0 and every predict_next call, the empty prefix included, returns the
\* no-prediction outcome.
EmptyCorpusAlwaysNoCandidates ==
    (TrainCalled /\ trained_with.corpus = <<>>)
        => /\ trained
           /\ vocab_size = 0
           /\ PredictReturned => returned.value = <<NoPredictionsMessage>>

\* C4 amended: after train on the empty corpus the model is trained, vocab_size is
\* 0, and predict_next returns the no-prediction outcome for every prefix that
\* holds a token and the empty result for a prefix that holds none.
EmptyCorpusNoCandidatesForTokens ==
    (TrainCalled /\ trained_with.corpus = <<>>)
        => /\ trained
           /\ vocab_size = 0
           /\ PredictReturned =>
                  returned.value =
                      (IF NoTokens(args.text) THEN <<>> ELSE <<NoPredictionsMessage>>)

\* C4 witness: trained on the empty corpus, predict_next returned for a prefix
\* that holds a token
EmptyCorpusTokenPrefixReached ==
    /\ TrainCalled
    /\ trained_with.corpus = <<>>
    /\ PredictReturned
    /\ ~NoTokens(args.text)

\* C5: after train with order n, the follower entries of the index sum to
\* total_transitions, which is max(0, token_count - n + 1); fewer than n tokens
\* give an empty index and total_transitions = 0.
TotalTransitionsIsWindowCount ==
    TrainCalled =>
        LET windows == TokenCount(trained_with.corpus) - trained_with.n + 1 IN
        /\ IndexEntries(model) = total_transitions
        /\ total_transitions = (IF windows > 0 THEN windows ELSE 0)
        /\ TokenCount(trained_with.corpus) < trained_with.n =>
               model = EmptyDict /\ total_transitions = 0

\* C5 witness: trained with n = 3 on a corpus of more than three tokens
SeveralWindowsReached ==
    /\ TrainCalled
    /\ trained_with.n = 3
    /\ TokenCount(trained_with.corpus) > 3
    /\ total_transitions >= 2

\* C6 as claimed: the scenario corpus with n = 2 gives vocab_size 6,
\* total_transitions 8 and unique_transitions 6.
ScenarioSixUniqueTransitions ==
    (TrainCalled /\ trained_with = [corpus |-> ScenarioCorpus, n |-> 2])
        => vocab_size = 6 /\ total_transitions = 8 /\ unique_transitions = 6

\* C6 amended: the scenario corpus with n = 2 gives vocab_size 6,
\* total_transitions 8 and unique_transitions 7 (cat -> ran is a seventh pair).
ScenarioSevenUniqueTransitions ==
    (TrainCalled /\ trained_with = [corpus |-> ScenarioCorpus, n |-> 2])
        => vocab_size = 6 /\ total_transitions = 8 /\ unique_transitions = 7

\* C6 witness: trained on the scenario corpus with n = 2
ScenarioTrainedReached ==
    trained /\ trained_with = [corpus |-> ScenarioCorpus, n |-> 2]

\* what a model constructed anew holds after one train(corpus, n), the training
\* duration aside
Fresh(corpus, n) ==
    LET tokens == split(corpus)
        built == TrainLoop(tokens, n, 0,
                     [model |-> EmptyDict, transition_counts |-> EmptyDict])
    IN  [model |-> built.model,
         trained |-> TRUE,
         vocab_size |-> VocabSize(tokens),
         unique_transitions |-> Cardinality(DOMAIN built.transition_counts),
         total_transitions |-> SumValues(built.transition_counts),
         f1_score |-> F1Score(built.transition_counts)]

Trainable ==
    [model |-> model, trained |-> trained, vocab_size |-> vocab_size,
     unique_transitions |-> unique_transitions,
     total_transitions |-> total_transitions, f1_score |-> f1_score]

\* C7: after any sequence of train calls the index, vocab_size,
\* unique_transitions, total_transitions and the quality score are those of a
\* fresh model trained once with the corpus and n of the last call.
RetrainedEqualsFresh ==
    TrainCalled => Trainable = Fresh(trained_with.corpus, trained_with.n)

\* C7 witness: train has been called again and has left an index with a key
RetrainedReached == train_calls >= 2 /\ DOMAIN model # {}

StatsFields ==
    {"file_name", "file_size", "training_time", "vocab_size", "unique_transitions",
     "total_transitions", "f1_score", "compression_ratio"}

\* C8 as claimed: get_stats called before any train call does not return a
\* statistics record (it signals the not-trained condition instead).
GetStatsBeforeTrainIsNoRecord ==
    (returned.op = "get_stats" /\ ~TrainCalled)
        => DOMAIN returned.value # StatsFields

\* the content of a file that can be read to its end
Content(file) ==
    LET C[k \in 0..Len(file.chunks)] ==
            IF k = 0 THEN <<>> ELSE C[k - 1] \o file.chunks[k]
    IN  C[Len(file.chunks)]

FullyUntrained ==
    /\ ~trained
    /\ model = EmptyDict
    /\ vocab_size = 0 /\ unique_transitions = 0 /\ total_transitions = 0
    /\ f1_score = Frac(0, 1) /\ training_time = 0
    /\ file_size = 0 /\ file_name = <<>>

\* trained for the corpus supplied last, the metadata being those of its file
FullyTrainedForLatest ==
    /\ TrainCalled
    /\ Trainable = Fresh(trained_with.corpus, trained_with.n)
    /\ \E file \in Files :
           /\ file.opens /\ file.bad = 0
           /\ Content(file) = trained_with.corpus
           /\ file_name = basename(file.path)
           /\ file_size = file.size

\* C9 as claimed: whenever predict_next or get_stats can be called (between any
\* two steps of AppSpec) the model is fully untrained or fully trained for the
\* most recently supplied corpus, metadata included.
UntrainedOrTrainedForLatest == FullyUntrained \/ FullyTrainedForLatest

\* C10: predict_next and get_stats leave the index, the trained flag and every
\* statistic as they were; a context that is absent is not added as a key.
ReadsLeaveThePredictorAlone ==
    [][returned'.op \in {"predict_next", "get_stats"} => UNCHANGED predictor]_vars

\* C10 witness: predict_next has returned for a context the index does not hold,
\* and the index holds other keys
AbsentContextReached ==
    /\ PredictReturned
    /\ trained
    /\ PrefixWords # <<>>
    /\ DOMAIN model # {}
    /\ LookupKey(PrefixWords) \notin DOMAIN model

====
